---- MODULE Spec2Model ----
(***************************************************************************)
(* Model of nix-bindings-expr/src/value.rs: the ValueType classification   *)
(* (ValueType::from_raw) and the reference-counted Value handle            *)
(* (Value::new, Value::new_borrowed, Value::raw_ptr, Drop, Clone).         *)
(*                                                                         *)
(* The foreign layer (raw::value_incref, raw::value_decref, the node's     *)
(* type tag, forcing) is not part of value.rs; it is modelled from the     *)
(* interface the specification gives: a call takes a node and returns a    *)
(* status, and a call that reports failure leaves the count unchanged.     *)
(***************************************************************************)
EXTENDS Integers, Sequences, FiniteSets, TLC

\* ------------------------------------------------------------------ bounds
NumNodes == 2
MaxHandles == 2
MaxTag == 11

\* ------------------------------------------------- raw::ValueType tags
ValueType_NIX_TYPE_THUNK == 0
ValueType_NIX_TYPE_INT == 1
ValueType_NIX_TYPE_FLOAT == 2
ValueType_NIX_TYPE_BOOL == 3
ValueType_NIX_TYPE_STRING == 4
ValueType_NIX_TYPE_PATH == 5
ValueType_NIX_TYPE_NULL == 6
ValueType_NIX_TYPE_ATTRS == 7
ValueType_NIX_TYPE_LIST == 8
ValueType_NIX_TYPE_FUNCTION == 9
ValueType_NIX_TYPE_EXTERNAL == 10

RawTags == 0..MaxTag

\* enum ValueType
ValueType ==
  {"AttrSet", "Bool", "External", "Float", "Function", "Int", "List",
   "Null", "Path", "String", "Unknown"}

\* Option<T>: None is the empty sequence, Some(x) the one-element sequence.
None == <<>>
Some(x) == <<x>>

\* A mis-ordered match: the thunk arm is lost and INT falls into it.
from_raw_IntAsThunk(raw) ==
  CASE raw = ValueType_NIX_TYPE_ATTRS -> Some("AttrSet")
    [] raw = ValueType_NIX_TYPE_BOOL -> Some("Bool")
    [] raw = ValueType_NIX_TYPE_EXTERNAL -> Some("External")
    [] raw = ValueType_NIX_TYPE_FLOAT -> Some("Float")
    [] raw = ValueType_NIX_TYPE_FUNCTION -> Some("Function")
    [] raw = ValueType_NIX_TYPE_INT -> None
    [] raw = ValueType_NIX_TYPE_LIST -> Some("List")
    [] raw = ValueType_NIX_TYPE_NULL -> Some("Null")
    [] raw = ValueType_NIX_TYPE_PATH -> Some("Path")
    [] raw = ValueType_NIX_TYPE_STRING -> Some("String")
    [] raw = ValueType_NIX_TYPE_THUNK -> None
    [] OTHER -> Some("Unknown")

\* Two arms swapped: PATH and STRING classify as each other.
from_raw_PathStringSwapped(raw) ==
  CASE raw = ValueType_NIX_TYPE_ATTRS -> Some("AttrSet")
    [] raw = ValueType_NIX_TYPE_BOOL -> Some("Bool")
    [] raw = ValueType_NIX_TYPE_EXTERNAL -> Some("External")
    [] raw = ValueType_NIX_TYPE_FLOAT -> Some("Float")
    [] raw = ValueType_NIX_TYPE_FUNCTION -> Some("Function")
    [] raw = ValueType_NIX_TYPE_INT -> Some("Int")
    [] raw = ValueType_NIX_TYPE_LIST -> Some("List")
    [] raw = ValueType_NIX_TYPE_NULL -> Some("Null")
    [] raw = ValueType_NIX_TYPE_PATH -> Some("String")
    [] raw = ValueType_NIX_TYPE_STRING -> Some("Path")
    [] raw = ValueType_NIX_TYPE_THUNK -> None
    [] OTHER -> Some("Unknown")

\* ValueType::from_raw
from_raw(raw) ==
  CASE raw = ValueType_NIX_TYPE_ATTRS -> Some("AttrSet")
    [] raw = ValueType_NIX_TYPE_BOOL -> Some("Bool")
    [] raw = ValueType_NIX_TYPE_EXTERNAL -> Some("External")
    [] raw = ValueType_NIX_TYPE_FLOAT -> Some("Float")
    [] raw = ValueType_NIX_TYPE_FUNCTION -> Some("Function")
    [] raw = ValueType_NIX_TYPE_INT -> Some("Int")
    [] raw = ValueType_NIX_TYPE_LIST -> Some("List")
    [] raw = ValueType_NIX_TYPE_NULL -> Some("Null")
    [] raw = ValueType_NIX_TYPE_PATH -> Some("Path")
    [] raw = ValueType_NIX_TYPE_STRING -> Some("String")
    [] raw = ValueType_NIX_TYPE_THUNK -> None
    [] OTHER -> Some("Unknown")

\* ------------------------------------------------------------------ state
Nodes == 1..NumNodes
null_mut == 0
Ptrs == {null_mut} \cup Nodes

\* The highest count the handles can bring a node to: the unit it starts
\* with and one for each Value.
MaxCount == MaxHandles + 1

\* The kinds the evaluator forces a thunk to: an integer, a string and a
\* kind this build does not know.
ForceKinds == {ValueType_NIX_TYPE_INT, ValueType_NIX_TYPE_STRING, MaxTag}

VARIABLES
  count,    \* foreign layer: reference count of each node
  tag,      \* foreign layer: raw type tag of each node
  ext,      \* units of each node's count held by callers outside any Value
  handles,  \* the Value objects ever made: [inner, live]
  hist,     \* history of each Value (how it was made, calls made for it)
  lastOp,   \* the last operation and how it ended
  failed,   \* some foreign count call has reported failure
  uaf,      \* a foreign count call was made on a node whose count was 0
  owner,    \* the thread that holds each Value, and whether it was moved
  pc        \* where each thread stands inside new_borrowed or clone

vars == <<count, tag, ext, handles, hist, lastOp, failed, uaf, owner, pc>>

\* The threads of the host application: as many as there can be handles.
Threads == 1..MaxHandles

\* The variables only the thread-level steps write.
tvars == <<owner, pc>>

\* A thread between operations.
Idle == [at |-> "idle", h |-> 0, d |-> 0]

HandleIds == 1..Len(handles)
Live(h) == h \in HandleIds /\ handles[h].live

\* struct Value { inner }, with whether the object still exists.
Value(inner) == [inner |-> inner, live |-> TRUE]

\* History of one Value: how it was made (origin), whether a unit of the
\* count was really added or transferred for it (owned), the handle it was
\* cloned from (parent) and the handle its family descends from (root), the
\* foreign calls made making it (increfs) and dropping it (decrefs), the
\* change of the count when it was made (made), and for a root the net
\* change of the count by the clones and drops of its family (net).
Hist(origin, owned, parent, root, increfs, made) ==
  [origin |-> origin, owned |-> owned, parent |-> parent, root |-> root,
   increfs |-> increfs, decrefs |-> 0, made |-> made, net |-> 0]

Op(op, h, arg, ok, result, val) ==
  [op |-> op, h |-> h, arg |-> arg, ok |-> ok, result |-> result, val |-> val]

\* ---------------------------------------------------------- foreign layer
\* Counts a call on a node that was already released may leave behind.
WildCounts == 0..MaxCount

\* raw::value_incref(ctx, node): the counts the node may have afterwards.
value_incref(c, ok) ==
  IF ~ok THEN {c} ELSE IF c = 0 THEN WildCounts ELSE {c + 1}

\* raw::value_decref(ctx, node): the counts the node may have afterwards.
value_decref(c, ok) ==
  IF ~ok THEN {c} ELSE IF c = 0 THEN WildCounts ELSE {c - 1}

\* check_call!: a failure status becomes Err, success Ok.
check_call(ok) == IF ok THEN "Ok" ELSE "Err"

\* NonNull::new
NonNull_new(ptr) == IF ptr = null_mut THEN None ELSE Some(ptr)

\* Every node starts as an unevaluated thunk with one reference, held by
\* the caller that got it from the evaluator.
Init ==
  /\ count = [n \in Nodes |-> 1]
  /\ ext = [n \in Nodes |-> 1]
  /\ tag = [n \in Nodes |-> ValueType_NIX_TYPE_THUNK]
  /\ handles = <<>>
  /\ hist = <<>>
  /\ lastOp = Op("init", 0, 0, TRUE, "returned", None)
  /\ failed = FALSE
  /\ uaf = FALSE
  /\ owner = <<>>
  /\ pc = [t \in Threads |-> Idle]

\* ------------------------------------------------------------- operations
\* A constructor that skips the null check (NonNull::new_unchecked).
Value_new_Unchecked(inner) ==
  /\ Len(handles) < MaxHandles
  /\ inner # null_mut => (count[inner] >= 1 /\ ext[inner] >= 1)
  /\ handles' = Append(handles, Value(inner))
  /\ hist' = Append(hist, Hist("adopt", TRUE, 0, Len(handles) + 1, 0, 0))
  /\ ext' = [n \in Nodes |-> IF n = inner THEN ext[n] - 1 ELSE ext[n]]
  /\ lastOp' = Op("new", Len(handles) + 1, inner, TRUE, "returned", None)
  /\ UNCHANGED <<count, tag, failed, uaf>>

\* Value::new(inner): adopt the unit the caller transfers.
Value_new(inner) ==
  IF NonNull_new(inner) = None
  THEN /\ lastOp' = Op("new", 0, inner, TRUE, "panic", None)
       /\ UNCHANGED <<count, tag, ext, handles, hist, failed, uaf>>
  ELSE /\ Len(handles) < MaxHandles
       /\ count[inner] >= 1 /\ ext[inner] >= 1
       /\ handles' = Append(handles, Value(inner))
       /\ hist' = Append(hist, Hist("adopt", TRUE, 0, Len(handles) + 1, 0, 0))
       /\ ext' = [ext EXCEPT ![inner] = @ - 1]
       /\ lastOp' = Op("new", Len(handles) + 1, inner, TRUE, "returned", None)
       /\ UNCHANGED <<count, tag, failed, uaf>>

\* A borrow that adopts without making the increment call.
new_borrowed_NoIncrement(inner, ok) ==
  IF NonNull_new(inner) = None
  THEN /\ ok
       /\ lastOp' = Op("new_borrowed", 0, inner, TRUE, "panic", None)
       /\ UNCHANGED <<count, tag, ext, handles, hist, failed, uaf>>
  ELSE /\ ok
       /\ Len(handles) < MaxHandles
       /\ count[inner] >= 1
       /\ hist' = Append(hist, Hist("borrow", TRUE, 0, Len(handles) + 1, 0, 0))
       /\ handles' = Append(handles, Value(inner))
       /\ lastOp' = Op("new_borrowed", Len(handles) + 1, inner, ok, "returned", None)
       /\ UNCHANGED <<count, tag, ext, failed, uaf>>

\* A borrow that unwraps the status of its increment, as clone does.
new_borrowed_Unwrap(inner, ok) ==
  IF NonNull_new(inner) = None
  THEN /\ ok
       /\ lastOp' = Op("new_borrowed", 0, inner, TRUE, "panic", None)
       /\ UNCHANGED <<count, tag, ext, handles, hist, failed, uaf>>
  ELSE /\ count[inner] >= 1
       /\ IF check_call(ok) = "Err"
          THEN /\ lastOp' = Op("new_borrowed", 0, inner, ok, "panic", None)
               /\ failed' = TRUE
               /\ UNCHANGED <<count, tag, ext, handles, hist, uaf>>
          ELSE /\ Len(handles) < MaxHandles
               /\ count' = [count EXCEPT ![inner] = @ + 1]
               /\ hist' = Append(hist, Hist("borrow", TRUE, 0, Len(handles) + 1, 1, 1))
               /\ handles' = Append(handles, Value(inner))
               /\ lastOp' = Op("new_borrowed", Len(handles) + 1, inner, ok,
                               "returned", None)
               /\ UNCHANGED <<tag, ext, failed, uaf>>

\* Value::new_borrowed(inner): Value::new, then value_incref with a null
\* context, whose status is not looked at.
new_borrowed(inner, ok) ==
  IF NonNull_new(inner) = None
  THEN /\ ok
       /\ lastOp' = Op("new_borrowed", 0, inner, TRUE, "panic", None)
       /\ UNCHANGED <<count, tag, ext, handles, hist, failed, uaf>>
  ELSE /\ Len(handles) < MaxHandles
       /\ count[inner] >= 1
       /\ \E c \in value_incref(count[inner], ok) :
            /\ count' = [count EXCEPT ![inner] = c]
            /\ hist' = Append(hist, Hist("borrow", ok, 0, Len(handles) + 1, 1,
                                         c - count[inner]))
       /\ handles' = Append(handles, Value(inner))
       /\ lastOp' = Op("new_borrowed", Len(handles) + 1, inner, ok, "returned", None)
       /\ failed' = (failed \/ ~ok)
       /\ UNCHANGED <<tag, ext, uaf>>

\* An accessor that takes a reference of its own on the node it returns.
raw_ptr_Incref(h) ==
  /\ Live(h)
  /\ count' = [count EXCEPT ![handles[h].inner] = @ + 1]
  /\ lastOp' = Op("raw_ptr", h, handles[h].inner, TRUE, "returned",
                  Some(handles[h].inner))
  /\ UNCHANGED <<tag, ext, handles, hist, failed, uaf>>

\* Value::raw_ptr(&self)
raw_ptr(h) ==
  /\ Live(h)
  /\ lastOp' = Op("raw_ptr", h, handles[h].inner, TRUE, "returned",
                  Some(handles[h].inner))
  /\ UNCHANGED <<count, tag, ext, handles, hist, failed, uaf>>

\* A drop that decrements twice (a double release).
Drop_Twice(h, ok) ==
  /\ Live(h)
  /\ ok
  /\ LET n == handles[h].inner
         r == hist[h].root
     IN /\ count[n] >= 2
        /\ count' = [count EXCEPT ![n] = @ - 2]
        /\ hist' = [hist EXCEPT ![h].decrefs = @ + 2, ![r].net = @ - 2]
        /\ lastOp' = Op("drop", h, n, ok, "returned", None)
  /\ handles' = [handles EXCEPT ![h].live = FALSE]
  /\ UNCHANGED <<tag, ext, failed, uaf>>

\* A drop that unwraps the status of its decrement, as clone does.
Drop_Unwrap(h, ok) ==
  /\ Live(h)
  /\ LET n == handles[h].inner
         r == hist[h].root
     IN /\ \E c \in value_decref(count[n], ok) :
             /\ count' = [count EXCEPT ![n] = c]
             /\ hist' = [hist EXCEPT ![h].decrefs = @ + 1,
                                     ![r].net = @ + (c - count[n])]
        /\ uaf' = (uaf \/ (ok /\ count[n] = 0))
        /\ lastOp' = Op("drop", h, n, ok,
                        IF check_call(ok) = "Err" THEN "panic" ELSE "returned",
                        None)
  /\ handles' = [handles EXCEPT ![h].live = FALSE]
  /\ failed' = (failed \/ ~ok)
  /\ UNCHANGED <<tag, ext>>

\* impl Drop for Value: one value_decref, its status not looked at.
Drop(h, ok) ==
  /\ Live(h)
  /\ LET n == handles[h].inner
         r == hist[h].root
     IN /\ \E c \in value_decref(count[n], ok) :
             /\ count' = [count EXCEPT ![n] = c]
             /\ hist' = [hist EXCEPT ![h].decrefs = @ + 1,
                                     ![r].net = @ + (c - count[n])]
        /\ uaf' = (uaf \/ (ok /\ count[n] = 0))
        /\ lastOp' = Op("drop", h, n, ok, "returned", None)
  /\ handles' = [handles EXCEPT ![h].live = FALSE]
  /\ failed' = (failed \/ ~ok)
  /\ UNCHANGED <<tag, ext>>

\* The outcome of clone's increment on handle h, shared by the variants of
\* clone below: the new count c of node n, the new handle aliasing `inner`.
CloneDone(h, n, c, inner) ==
  LET r == hist[h].root
  IN /\ count' = [count EXCEPT ![n] = c]
     /\ hist' = Append([hist EXCEPT ![r].net = @ + (c - count[n])],
                       Hist("clone", TRUE, h, r, 1, c - count[n]))
     /\ handles' = Append(handles, Value(inner))
     /\ UNCHANGED <<tag, ext>>

\* A clone that ignores the status of its increment, as new_borrowed does.
Clone_IgnoreStatus(h, ok) ==
  /\ Live(h)
  /\ Len(handles) < MaxHandles
  /\ LET n == handles[h].inner
     IN /\ \E c \in value_incref(count[n], ok) : CloneDone(h, n, c, n)
        /\ uaf' = (uaf \/ (ok /\ count[n] = 0))
        /\ lastOp' = Op("clone", h, n, ok, "returned", Some(Len(handles) + 1))
        /\ failed' = (failed \/ ~ok)

\* A clone that makes the new handle without incrementing the count.
Clone_NoIncrement(h, ok) ==
  /\ Live(h)
  /\ ok
  /\ Len(handles) < MaxHandles
  /\ LET n == handles[h].inner
     IN /\ CloneDone(h, n, count[n], n)
        /\ lastOp' = Op("clone", h, n, ok, "returned", Some(Len(handles) + 1))
        /\ UNCHANGED <<failed, uaf>>

\* A clone that hands out a handle to another node (a copy) instead of an
\* alias of the same node.
Clone_Copy(h, ok) ==
  /\ Live(h)
  /\ ok
  /\ Len(handles) < MaxHandles
  /\ LET n == handles[h].inner
     IN /\ count[n] >= 1
        /\ CloneDone(h, n, count[n] + 1, (n % NumNodes) + 1)
        /\ lastOp' = Op("clone", h, n, ok, "returned", Some(Len(handles) + 1))
        /\ UNCHANGED <<failed, uaf>>

\* impl Clone for Value: check_call!(value_incref(..)).unwrap(), then a new
\* Value with the same inner.
Clone(h, ok) ==
  /\ Live(h)
  /\ LET n == handles[h].inner
     IN IF check_call(ok) = "Err"
        THEN /\ \E c \in value_incref(count[n], ok) :
                  count' = [count EXCEPT ![n] = c]
             /\ lastOp' = Op("clone", h, n, ok, "panic", None)
             /\ failed' = TRUE
             /\ UNCHANGED <<tag, ext, handles, hist, uaf>>
        ELSE /\ Len(handles) < MaxHandles
             /\ \E c \in value_incref(count[n], ok) : CloneDone(h, n, c, n)
             /\ uaf' = (uaf \/ count[n] = 0)
             /\ lastOp' = Op("clone", h, n, ok, "returned", Some(Len(handles) + 1))
             /\ UNCHANGED failed

\* ------------------------------------------------- callers and evaluator
\* EvalState::value_type_unforced(&value): read the node's tag and classify.
value_type_unforced(h) ==
  /\ Live(h)
  /\ LET n == handles[h].inner
     IN lastOp' = Op("value_type_unforced", h, n, TRUE, "returned",
                     from_raw(tag[n]))
  /\ UNCHANGED <<count, tag, ext, handles, hist, failed, uaf>>

\* ValueType::from_raw called on any raw tag.
FromRaw(raw) ==
  /\ lastOp' = Op("from_raw", 0, raw, TRUE, "returned", from_raw(raw))
  /\ UNCHANGED <<count, tag, ext, handles, hist, failed, uaf>>

\* The evaluator forces a thunk: the node's tag becomes an evaluated kind.
Force(n, kind) ==
  /\ tag[n] = ValueType_NIX_TYPE_THUNK
  /\ count[n] >= 1
  /\ kind # ValueType_NIX_TYPE_THUNK
  /\ tag' = [tag EXCEPT ![n] = kind]
  /\ lastOp' = Op("force", 0, n, TRUE, "returned", None)
  /\ UNCHANGED <<count, ext, handles, hist, failed, uaf>>

\* A caller outside gives up a reference it holds.
ExtRelease(n) ==
  /\ ext[n] >= 1
  /\ count[n] >= 1
  /\ count' = [count EXCEPT ![n] = @ - 1]
  /\ ext' = [ext EXCEPT ![n] = @ - 1]
  /\ lastOp' = Op("ext_release", 0, n, TRUE, "returned", None)
  /\ UNCHANGED <<tag, handles, hist, failed, uaf>>

\* The handle operations, any foreign count call failing or not, with the
\* callers' own releases.
Next ==
  \/ \E inner \in Ptrs : Value_new(inner) /\ UNCHANGED tvars
  \/ \E inner \in Ptrs, ok \in BOOLEAN : new_borrowed(inner, ok) /\ UNCHANGED tvars
  \/ \E h \in HandleIds, ok \in BOOLEAN : Drop(h, ok) /\ UNCHANGED tvars
  \/ \E h \in HandleIds, ok \in BOOLEAN : Clone(h, ok) /\ UNCHANGED tvars
  \/ \E n \in Nodes : ExtRelease(n) /\ UNCHANGED tvars

Spec == Init /\ [][Next]_vars

\* The handle operations together with the evaluator forcing thunks and
\* callers classifying nodes through their handles; the foreign count
\* calls succeed here (their failures are Spec's subject).
NextEval ==
  \/ \E inner \in Ptrs : Value_new(inner) /\ UNCHANGED tvars
  \/ \E inner \in Ptrs : new_borrowed(inner, TRUE) /\ UNCHANGED tvars
  \/ \E h \in HandleIds : Drop(h, TRUE) /\ UNCHANGED tvars
  \/ \E h \in HandleIds : Clone(h, TRUE) /\ UNCHANGED tvars
  \/ \E h \in HandleIds : value_type_unforced(h) /\ UNCHANGED tvars
  \/ \E n \in Nodes, kind \in ForceKinds : Force(n, kind) /\ UNCHANGED tvars

SpecEval == Init /\ [][NextEval]_vars

\* The handle operations together with the two readers of this file,
\* from_raw on every raw tag and raw_ptr; the foreign count calls succeed.
NextRead ==
  \/ \E inner \in Ptrs : Value_new(inner) /\ UNCHANGED tvars
  \/ \E inner \in Ptrs : new_borrowed(inner, TRUE) /\ UNCHANGED tvars
  \/ \E h \in HandleIds : Drop(h, TRUE) /\ UNCHANGED tvars
  \/ \E h \in HandleIds : Clone(h, TRUE) /\ UNCHANGED tvars
  \/ \E h \in HandleIds : raw_ptr(h) /\ UNCHANGED tvars
  \/ \E raw \in RawTags : FromRaw(raw) /\ UNCHANGED tvars

SpecRead == Init /\ [][NextRead]_vars

\* The handle operations with failing foreign calls, together with the two
\* readers of this file.
NextAll ==
  \/ \E inner \in Ptrs : Value_new(inner) /\ UNCHANGED tvars
  \/ \E inner \in Ptrs, ok \in BOOLEAN : new_borrowed(inner, ok) /\ UNCHANGED tvars
  \/ \E h \in HandleIds, ok \in BOOLEAN : Drop(h, ok) /\ UNCHANGED tvars
  \/ \E h \in HandleIds, ok \in BOOLEAN : Clone(h, ok) /\ UNCHANGED tvars
  \/ \E h \in HandleIds : raw_ptr(h) /\ UNCHANGED tvars
  \/ \E raw \in RawTags : FromRaw(raw) /\ UNCHANGED tvars

SpecAll == Init /\ [][NextAll]_vars

\* ------------------------------------------------------------ the threads
\* The same operations as steps of the host's threads. A foreign count call
\* is one atomic step; what a thread does before or after it inside one
\* operation is a step of its own, so that other threads' steps can fall in
\* between.

\* The threads' handles all alias one node.
Shared == CHOOSE n \in Nodes : TRUE

\* Who holds a Value: the thread that made it, until it is moved to another
\* thread; no thread once it is dropped.
Owned(t) == [held_by |-> t, moved |-> FALSE]

\* The borrowed Value is still the local `v` of a running new_borrowed.
UnderConstruction(h) ==
  \E t \in Threads : pc[t].at = "borrow_incref" /\ pc[t].h = h

\* A new_borrowed(n) is running: its caller keeps its reference on n.
BorrowRunning(n) ==
  \E t \in Threads : pc[t].at = "borrow_incref" /\ handles[pc[t].h].inner = n

\* The clones that have made their increment and not yet their Value.
Making == {t \in Threads : pc[t].at = "clone_make"}

\* Value::new(inner) on thread t.
T_Value_new(t, inner) ==
  /\ pc[t] = Idle
  /\ inner # null_mut =>
       (~BorrowRunning(inner) /\ Len(handles) + Cardinality(Making) < MaxCount)
  /\ Value_new(inner)
  /\ owner' = IF NonNull_new(inner) = None THEN owner ELSE Append(owner, Owned(t))
  /\ pc' = pc

\* Value::new_borrowed(inner) on thread t, its first statement:
\* `let v = Value::new(inner);`. The caller holds a reference on inner for
\* the length of the call.
T_new_borrowed_new(t, inner) ==
  /\ pc[t] = Idle
  /\ IF NonNull_new(inner) = None
     THEN /\ lastOp' = Op("new_borrowed", 0, inner, TRUE, "panic", None)
          /\ UNCHANGED <<count, tag, ext, handles, hist, failed, uaf, owner, pc>>
     ELSE /\ Len(handles) + Cardinality(Making) < MaxCount
          /\ ext[inner] >= 1 /\ count[inner] >= 1
          /\ handles' = Append(handles, Value(inner))
          /\ hist' = Append(hist, Hist("borrow", FALSE, 0, Len(handles) + 1, 0, 0))
          /\ owner' = Append(owner, Owned(t))
          /\ pc' = [pc EXCEPT ![t] = [at |-> "borrow_incref",
                                      h |-> Len(handles) + 1, d |-> 0]]
          /\ lastOp' = Op("new_borrowed", Len(handles) + 1, inner, TRUE,
                          "running", None)
          /\ UNCHANGED <<count, tag, ext, failed, uaf>>

\* A borrow whose second statement returns v without the increment call.
T_new_borrowed_incref_Skipped(t, ok) ==
  /\ pc[t].at = "borrow_incref"
  /\ ok
  /\ lastOp' = Op("new_borrowed", pc[t].h, handles[pc[t].h].inner, ok,
                  "returned", None)
  /\ pc' = [pc EXCEPT ![t] = Idle]
  /\ UNCHANGED <<count, tag, ext, handles, hist, failed, uaf, owner>>

\* Value::new_borrowed on thread t, the rest: value_incref with a null
\* context, its status not looked at, then `v` is returned.
T_new_borrowed_incref(t, ok) ==
  /\ pc[t].at = "borrow_incref"
  /\ LET h == pc[t].h
         n == handles[h].inner
     IN /\ \E c \in value_incref(count[n], ok) :
             /\ count' = [count EXCEPT ![n] = c]
             /\ hist' = [hist EXCEPT ![h].owned = ok, ![h].increfs = 1,
                                     ![h].made = c - count[n]]
        /\ uaf' = (uaf \/ (ok /\ count[n] = 0))
        /\ lastOp' = Op("new_borrowed", h, n, ok, "returned", None)
  /\ failed' = (failed \/ ~ok)
  /\ pc' = [pc EXCEPT ![t] = Idle]
  /\ UNCHANGED <<tag, ext, handles, owner>>

\* A clone whose first statement goes on without having incremented.
T_Clone_incref_NoIncrement(t, h, ok) ==
  /\ pc[t] = Idle
  /\ Live(h)
  /\ owner[h].held_by = t
  /\ ok
  /\ Len(handles) + Cardinality(Making) < MaxCount
  /\ lastOp' = Op("clone", h, handles[h].inner, ok, "running", None)
  /\ pc' = [pc EXCEPT ![t] = [at |-> "clone_make", h |-> h, d |-> 0]]
  /\ UNCHANGED <<count, tag, ext, handles, hist, failed, uaf, owner>>

\* clone(&self) on the thread t that holds h, its first statement:
\* check_call!(value_incref(..)).unwrap().
T_Clone_incref(t, h, ok) ==
  /\ pc[t] = Idle
  /\ Live(h)
  /\ owner[h].held_by = t
  /\ LET n == handles[h].inner
         r == hist[h].root
     IN \E c \in value_incref(count[n], ok) :
          /\ count' = [count EXCEPT ![n] = c]
          /\ hist' = [hist EXCEPT ![r].net = @ + (c - count[n])]
          /\ uaf' = (uaf \/ (ok /\ count[n] = 0))
          /\ IF check_call(ok) = "Err"
             THEN /\ lastOp' = Op("clone", h, n, ok, "panic", None)
                  /\ pc' = pc
             ELSE /\ Len(handles) + Cardinality(Making) < MaxCount
                  /\ lastOp' = Op("clone", h, n, ok, "running", None)
                  /\ pc' = [pc EXCEPT ![t] = [at |-> "clone_make", h |-> h,
                                              d |-> c - count[n]]]
  /\ failed' = (failed \/ ~ok)
  /\ UNCHANGED <<tag, ext, handles, owner>>

\* clone(&self) on thread t, the rest: `Value { inner: self.inner }`.
T_Clone_make(t) ==
  /\ pc[t].at = "clone_make"
  /\ LET h == pc[t].h
     IN /\ handles' = Append(handles, Value(handles[h].inner))
        /\ hist' = Append(hist, Hist("clone", TRUE, h, hist[h].root, 1, pc[t].d))
        /\ lastOp' = Op("clone", h, handles[h].inner, TRUE, "returned",
                        Some(Len(handles) + 1))
  /\ owner' = Append(owner, Owned(t))
  /\ pc' = [pc EXCEPT ![t] = Idle]
  /\ UNCHANGED <<count, tag, ext, failed, uaf>>

\* The thread t that holds h lets it go out of scope.
T_Drop(t, h, ok) ==
  /\ pc[t] = Idle
  /\ Live(h)
  /\ owner[h].held_by = t
  /\ Drop(h, ok)
  /\ owner' = [owner EXCEPT ![h].held_by = 0]
  /\ pc' = pc

\* unsafe impl Send for Value: the thread t that holds h hands it to
\* another thread.
T_Move(t, h, to) ==
  /\ pc[t] = Idle
  /\ Live(h)
  /\ owner[h].held_by = t
  /\ to # t
  /\ owner' = [owner EXCEPT ![h] = [held_by |-> to, moved |-> TRUE]]
  /\ lastOp' = Op("move", h, handles[h].inner, TRUE, "returned", None)
  /\ UNCHANGED <<count, tag, ext, handles, hist, failed, uaf, pc>>

\* The threads' steps on the handles of one node, with room for one handle
\* more than the threads, so that a clone can stand between its two steps
\* while other threads hold handles of their own; the pointer is not null
\* and the foreign count calls succeed here (null pointers and failures are
\* Spec's subject).
NextThreads ==
  \/ \E t \in Threads : T_Value_new(t, Shared)
  \/ \E t \in Threads : T_new_borrowed_new(t, Shared)
  \/ \E t \in Threads : T_new_borrowed_incref(t, TRUE)
  \/ \E t \in Threads, h \in HandleIds : T_Clone_incref(t, h, TRUE)
  \/ \E t \in Threads : T_Clone_make(t)
  \/ \E t \in Threads, h \in HandleIds : T_Drop(t, h, TRUE)
  \/ \E t \in Threads, h \in HandleIds, to \in Threads : T_Move(t, h, to)

SpecThreads == Init /\ [][NextThreads]_vars

\* ------------------------------------------------------------ the claims
\* The node a handle is meant to alias: the pointer its family's root was
\* constructed from.
AliasNode(h) == handles[hist[h].root].inner

\* The handles descending from root r (r itself and its clones' clones).
Family(r) == {h \in HandleIds : hist[h].root = r}
IsRoot(r) == r \in HandleIds /\ hist[r].root = r
AllDestroyed(r) == \A h \in Family(r) : ~handles[h].live

\* What value_type_unforced returns through handle h in this state.
WouldReport(h) == from_raw(tag[handles[h].inner])

\* C1: a node referenced by a live Value handle has a foreign reference
\* count of at least 1 (it is never released while a handle is live).
C1_LiveHandleNodeAlive ==
  \A h \in HandleIds : handles[h].live => count[handles[h].inner] >= 1

\* C2: every Value handle owns one effective unit of the count (transferred
\* to it by adopt, added for it by borrow or clone), and its destruction
\* has made exactly one decrement: none while it lives, one once dropped.
C2_EveryHandleOwnsItsUnit ==
  \A h \in HandleIds :
    /\ hist[h].owned
    /\ hist[h].decrefs = (IF handles[h].live THEN 0 ELSE 1)

\* C3 as stated: when no foreign call has failed, once a handle and all
\* its clones are destroyed the clones and drops of that family have left
\* the count where it was when the cloning started (net change 0).
C3_BalancedAsStated ==
  \A r \in HandleIds :
    (IsRoot(r) /\ ~failed /\ AllDestroyed(r)) => hist[r].net = 0

\* C3 amended: when no foreign call has failed, once a handle and all its
\* N clones are destroyed, the N clones and N+1 drops have changed the
\* count by exactly -1 (the original handle's own unit is released); with
\* the construction counted in, the count is back where it was before a
\* borrow, and one below where it was before an adopt.
C3_BalancedButForTheOwnUnit ==
  \A r \in HandleIds :
    (IsRoot(r) /\ ~failed /\ AllDestroyed(r)) =>
      /\ hist[r].net = -1
      /\ hist[r].made + hist[r].net =
           (IF hist[r].origin = "borrow" THEN 0 ELSE -1)

\* C3 witness: a handle was cloned and it and its clone are destroyed,
\* no foreign call having failed.
C3_Witness ==
  \E r \in HandleIds :
    /\ IsRoot(r) /\ ~failed /\ AllDestroyed(r)
    /\ Cardinality(Family(r)) >= 2

\* C4: a clone whose foreign increment fails ends in a panic, makes no new
\* handle (so nothing is ever dropped for it), and leaves the handles, their
\* histories and every node's count as they were.
C4_FailedClonePanics ==
  [][(lastOp'.op = "clone" /\ ~lastOp'.ok) =>
       /\ lastOp'.result = "panic"
       /\ handles' = handles
       /\ hist' = hist
       /\ count' = count]_vars

\* C4 witness: a clone's increment failed and the clone panicked, its
\* original handle still live.
C4_Witness ==
  /\ lastOp.op = "clone" /\ ~lastOp.ok /\ lastOp.result = "panic"
  /\ Live(lastOp.h)

\* C5: destroying a handle makes exactly one foreign decrement call, on
\* that handle's node, and returns normally whether or not that call
\* fails; a destroyed handle is never destroyed or decremented for again.
C5_DropDecrementsOnce ==
  [][\A h \in HandleIds :
       /\ (handles[h].live /\ ~handles'[h].live) =>
            /\ hist'[h].decrefs = hist[h].decrefs + 1
            /\ lastOp'.op = "drop" /\ lastOp'.h = h
            /\ lastOp'.arg = handles[h].inner
            /\ lastOp'.result = "returned"
       /\ lastOp'.op = "drop" => lastOp'.result = "returned"
       /\ ~handles[h].live =>
            /\ ~handles'[h].live
            /\ hist'[h].decrefs = hist[h].decrefs
       /\ hist'[h].decrefs = (IF handles'[h].live THEN 0 ELSE 1)]_vars

\* C5 witness: a handle was destroyed while its decrement call failed, and
\* the destruction returned.
C5_Witness ==
  /\ lastOp.op = "drop" /\ ~lastOp.ok /\ lastOp.result = "returned"
  /\ ~handles[lastOp.h].live
  /\ hist[lastOp.h].decrefs = 1

\* C6: a handle made by adopt made no increment call and left the count
\* unchanged; a handle made by borrow made exactly one increment call and
\* raised the count by exactly 1.
C6_AdoptNoneBorrowOne ==
  \A h \in HandleIds :
    /\ hist[h].origin = "adopt" => (hist[h].increfs = 0 /\ hist[h].made = 0)
    /\ hist[h].origin = "borrow" => (hist[h].increfs = 1 /\ hist[h].made = 1)

\* C7: a live clone whose original has been destroyed holds the pointer the
\* original held, its node is still alive (count >= 1), and a
\* classification through it reads that node.
C7_CloneOutlivesOriginal ==
  \A h \in HandleIds :
    (handles[h].live /\ hist[h].origin = "clone"
       /\ ~handles[hist[h].parent].live) =>
      /\ handles[h].inner = handles[hist[h].parent].inner
      /\ count[handles[h].inner] >= 1
      /\ WouldReport(h) = from_raw(tag[handles[hist[h].parent].inner])

\* The kind a forced node is expected to be reported as.
ExpectedKind(t) ==
  CASE t = ValueType_NIX_TYPE_INT -> "Int"
    [] t = ValueType_NIX_TYPE_STRING -> "String"
    [] OTHER -> "Unknown"

\* C8: once the node a handle aliases has been forced to a kind, every live
\* handle of that node reports exactly that kind (never a stale thunk), a
\* handle of a node still a thunk reports none, and a classification just
\* made returned that.
C8_AliasesSeeForcedKind ==
  /\ \A h \in HandleIds :
       handles[h].live =>
         WouldReport(h) =
           (IF tag[AliasNode(h)] = ValueType_NIX_TYPE_THUNK
            THEN None ELSE Some(ExpectedKind(tag[AliasNode(h)])))
  /\ lastOp.op = "value_type_unforced" =>
       lastOp.val =
         (IF tag[AliasNode(lastOp.h)] = ValueType_NIX_TYPE_THUNK
          THEN None ELSE Some(ExpectedKind(tag[AliasNode(lastOp.h)])))

\* C8 witness: a node aliased by two live handles, one a clone of the
\* other, was forced to the integer kind, and a classification through the
\* clone returned Int.
C8_Witness ==
  /\ lastOp.op = "value_type_unforced"
  /\ lastOp.val = Some("Int")
  /\ hist[lastOp.h].origin = "clone"
  /\ Live(hist[lastOp.h].parent)
  /\ tag[handles[hist[lastOp.h].parent].inner] = ValueType_NIX_TYPE_INT

\* C9: a node's tag changes only from thunk to an evaluated kind and only
\* by forcing (so at most once; clone and drop never change it), and once
\* some live handle of a node classifies it as a kind, every handle of that
\* node does so in the next state, a classification made then included.
C9_EvaluationMonotonic ==
  [][/\ \A n \in Nodes :
          tag'[n] # tag[n] =>
            /\ tag[n] = ValueType_NIX_TYPE_THUNK
            /\ tag'[n] # ValueType_NIX_TYPE_THUNK
            /\ lastOp'.op = "force"
     /\ \A h1 \in HandleIds, h2 \in 1..Len(handles') :
          (/\ handles[h1].live /\ handles'[h2].live
           /\ AliasNode(h1) = AliasNode(h2)'
           /\ WouldReport(h1) # None) =>
            /\ WouldReport(h2)' # None
            /\ (lastOp'.op = "value_type_unforced" /\ lastOp'.h = h2) =>
                 lastOp'.val # None]_vars

\* C9 witness: a node was forced while a handle and its clone alias it, the
\* original has been dropped, and the clone classifies it as a kind.
C9_Witness ==
  \E h \in HandleIds :
    /\ handles[h].live /\ hist[h].origin = "clone"
    /\ ~handles[hist[h].parent].live
    /\ lastOp.op = "value_type_unforced" /\ lastOp.h = h
    /\ lastOp.val # None

\* The ten raw tags from_raw knows.
KnownTags ==
  {ValueType_NIX_TYPE_ATTRS, ValueType_NIX_TYPE_BOOL,
   ValueType_NIX_TYPE_EXTERNAL, ValueType_NIX_TYPE_FLOAT,
   ValueType_NIX_TYPE_FUNCTION, ValueType_NIX_TYPE_INT,
   ValueType_NIX_TYPE_LIST, ValueType_NIX_TYPE_NULL,
   ValueType_NIX_TYPE_PATH, ValueType_NIX_TYPE_STRING}

\* C10: from_raw returns, for every raw tag, None or Some of a ValueType:
\* each of the ten known tags gives its own kind, two known tags never the
\* same kind and never Unknown, the thunk tag and only it gives None, and
\* every other tag gives Some(Unknown).
C10_FromRawTable ==
  lastOp.op = "from_raw" =>
    LET t == lastOp.arg
        r == lastOp.val
    IN /\ lastOp.result = "returned"
       /\ r \in {None} \cup {Some(k) : k \in ValueType}
       /\ t = ValueType_NIX_TYPE_ATTRS => r = Some("AttrSet")
       /\ t = ValueType_NIX_TYPE_BOOL => r = Some("Bool")
       /\ t = ValueType_NIX_TYPE_EXTERNAL => r = Some("External")
       /\ t = ValueType_NIX_TYPE_FLOAT => r = Some("Float")
       /\ t = ValueType_NIX_TYPE_FUNCTION => r = Some("Function")
       /\ t = ValueType_NIX_TYPE_INT => r = Some("Int")
       /\ t = ValueType_NIX_TYPE_LIST => r = Some("List")
       /\ t = ValueType_NIX_TYPE_NULL => r = Some("Null")
       /\ t = ValueType_NIX_TYPE_PATH => r = Some("Path")
       /\ t = ValueType_NIX_TYPE_STRING => r = Some("String")
       /\ (r = None) <=> (t = ValueType_NIX_TYPE_THUNK)
       /\ (r = Some("Unknown")) <=>
            (t \notin KnownTags \cup {ValueType_NIX_TYPE_THUNK})
       /\ \A u \in KnownTags : (u # t /\ t \in KnownTags) => from_raw(u) # r

\* C10 witness: from_raw was applied to a tag outside the known set and
\* returned Some(Unknown).
C10_Witness ==
  /\ lastOp.op = "from_raw"
  /\ lastOp.arg \notin KnownTags \cup {ValueType_NIX_TYPE_THUNK}
  /\ lastOp.val = Some("Unknown")

\* The number of live handles on node n.
NLive(n) == Cardinality({h \in HandleIds : handles[h].live /\ handles[h].inner = n})

\* Every handle ever made owns its unit: no borrow's increment has failed.
AllOwned == \A h \in HandleIds : hist[h].owned

\* C11: an operation called with a non-null pointer ends in a panic only if
\* it is a clone whose increment failed; a borrow whose increment failed
\* and a destruction whose decrement failed return normally.
C11_OnlyCloneFails ==
  /\ lastOp.result = "panic" =>
       \/ lastOp.op = "clone" /\ ~lastOp.ok
       \/ lastOp.op \in {"new", "new_borrowed"} /\ lastOp.arg = null_mut
  /\ (lastOp.op \in {"new_borrowed", "drop"} /\ ~lastOp.ok) =>
       lastOp.result = "returned"
  /\ lastOp.op \in {"from_raw", "raw_ptr"} => lastOp.result = "returned"

\* C11 witness: a handle whose borrow returned although its increment
\* failed has been destroyed, the decrement failing too, and the
\* destruction returned.
C11_Witness ==
  /\ lastOp.op = "drop" /\ ~lastOp.ok /\ lastOp.result = "returned"
  /\ hist[lastOp.h].origin = "borrow" /\ ~hist[lastOp.h].owned

\* C13: while no foreign call has failed, every node's count is the units
\* held outside plus its live handles; so on a node whose caller keeps its
\* one unit, the count is that unit plus the live handles made by borrow
\* or clone, each of which raised the count by exactly 1 when made.
C13_CountIsBasePlusLive ==
  ~failed =>
    /\ \A n \in Nodes :
         /\ count[n] = ext[n] + NLive(n)
         /\ ext[n] = 1 =>
              count[n] = 1 + Cardinality({h \in HandleIds :
                                            /\ handles[h].live
                                            /\ handles[h].inner = n
                                            /\ hist[h].origin \in {"borrow", "clone"}})
    /\ \A h \in HandleIds :
         hist[h].origin \in {"borrow", "clone"} => hist[h].made = 1

\* C13 witness: a node with count 1 was borrowed, the handle cloned, and
\* both handles dropped, no call failing: the count is back at 1.
C13_Witness ==
  /\ ~failed
  /\ \E h \in HandleIds :
       /\ hist[h].origin = "clone" /\ ~handles[h].live
       /\ hist[hist[h].parent].origin = "borrow"
       /\ ~handles[hist[h].parent].live
       /\ count[handles[h].inner] = 1
       /\ ext[handles[h].inner] = 1

\* C14: as long as only decrements (and clones' increments) have failed,
\* every node's count is at least the units held outside plus its live
\* handles: a failed decrement leaves the count too high, never too low.
C14_FailedDecrementOnlyLeaks ==
  AllOwned =>
    \A n \in Nodes :
      /\ count[n] >= ext[n] + NLive(n)
      /\ NLive(n) > 0 => count[n] >= 1

\* C14 witness: a destruction's decrement failed and the node, with no
\* handle and no outside unit left, still has a positive count (a leak).
C14_Witness ==
  /\ AllOwned
  /\ lastOp.op = "drop" /\ ~lastOp.ok
  /\ NLive(lastOp.arg) = 0 /\ ext[lastOp.arg] = 0
  /\ count[lastOp.arg] >= 1

\* C15: every Value holds a non-null pointer; adopt and borrow given a
\* null pointer panic with no handle made and no foreign call made (counts
\* and histories unchanged); no clone, drop or returned borrow was ever
\* on a null pointer.
C15_NeverNull ==
  [][/\ \A h \in 1..Len(handles') : handles'[h].inner \in Nodes
     /\ (lastOp'.op \in {"new", "new_borrowed"} /\ lastOp'.arg = null_mut) =>
          /\ lastOp'.result = "panic"
          /\ handles' = handles /\ hist' = hist /\ count' = count
     /\ (lastOp'.op \in {"clone", "drop"}
           \/ (lastOp'.op = "new_borrowed" /\ lastOp'.result = "returned")) =>
          lastOp'.arg \in Nodes]_vars

\* C15 witness: a borrow of the null pointer panicked.
C15_Witness ==
  /\ lastOp.op = "new_borrowed" /\ lastOp.arg = null_mut
  /\ lastOp.result = "panic"

\* C16: a step of from_raw or raw_ptr changes no count, tag, outside unit,
\* handle or history; from_raw returns the classification of the tag it
\* was given, and raw_ptr the pointer the handle's family was made from,
\* which is the pointer every handle of the family holds.
C16_ReadersChangeNothing ==
  [][lastOp'.op \in {"from_raw", "raw_ptr"} =>
       /\ count' = count /\ tag' = tag /\ ext' = ext
       /\ handles' = handles /\ hist' = hist
       /\ lastOp'.op = "from_raw" => lastOp'.val = from_raw(lastOp'.arg)
       /\ lastOp'.op = "raw_ptr" =>
            /\ lastOp'.val = Some(AliasNode(lastOp'.h))
            /\ \A h \in Family(hist[lastOp'.h].root) :
                 handles[h].inner = lastOp'.val[1]]_vars

\* C16 witness: raw_ptr was called on a clone whose original is live and
\* returned the original's pointer.
C16_Witness ==
  /\ lastOp.op = "raw_ptr"
  /\ hist[lastOp.h].origin = "clone"
  /\ Live(hist[lastOp.h].parent)
  /\ lastOp.val = Some(handles[hist[lastOp.h].parent].inner)

\* The units of node n's count the threads' handles stand for: the live
\* handles on n that have been returned to their callers, and the
\* increments of the clones on n that have not made their handle yet.
Held(n) ==
  Cardinality({h \in HandleIds : /\ handles[h].live
                                 /\ handles[h].inner = n
                                 /\ ~UnderConstruction(h)})
    + Cardinality({t \in Making : handles[pc[t].h].inner = n})

CountCoversHeld == \A n \in Nodes : count[n] >= Held(n)

\* C12: with handles held by different threads and every foreign count
\* call one atomic step, no step of a clone, a drop or a move, however the
\* threads' steps interleave, takes a node's count below the handles it
\* stands for; a move changes no count, handle or history; and a drop, of
\* a moved handle as of any other, makes exactly one decrement call, which
\* lowers the count by 1 when it succeeds.
C12_ThreadsKeepCount ==
  [][lastOp'.op \in {"clone", "drop", "move"} =>
       /\ CountCoversHeld => CountCoversHeld'
       /\ lastOp'.op = "move" =>
            /\ count' = count /\ handles' = handles /\ hist' = hist
            /\ owner'[lastOp'.h].held_by # owner[lastOp'.h].held_by
       /\ lastOp'.op = "drop" =>
            /\ hist'[lastOp'.h].decrefs = 1
            /\ ~handles'[lastOp'.h].live
            /\ (lastOp'.ok /\ count[lastOp'.arg] >= 1) =>
                 count'[lastOp'.arg] = count[lastOp'.arg] - 1]_vars

\* C12 witness: a handle that was moved to another thread has been dropped
\* there, with one decrement, while a clone on a third handle's thread
\* stands between its increment and its new handle, and the count covers
\* what is left.
C12_Witness ==
  /\ lastOp.op = "drop" /\ lastOp.ok
  /\ owner[lastOp.h].moved
  /\ hist[lastOp.h].decrefs = 1
  /\ \E t \in Making : handles[pc[t].h].inner = lastOp.arg
  /\ CountCoversHeld
  /\ count[lastOp.arg] >= 1

\* C17 as stated: a borrowed handle never exists before its increment has
\* been made.
C17_IncrementBeforeHandle ==
  \A h \in HandleIds : hist[h].origin = "borrow" => hist[h].increfs = 1

\* C17, amended: new_borrowed makes the handle first and increments then,
\* but the handle without its increment is only the local of the running
\* call: it is live, was never moved, cloned or dropped, and its thread is
\* inside new_borrowed; every borrowed handle that was returned has had
\* its increment call made, once.
C17_IncrementBeforeReturn ==
  \A h \in HandleIds :
    hist[h].origin = "borrow" =>
      /\ UnderConstruction(h) <=> hist[h].increfs = 0
      /\ ~UnderConstruction(h) => hist[h].increfs = 1
      /\ UnderConstruction(h) =>
           /\ handles[h].live
           /\ hist[h].decrefs = 0
           /\ ~owner[h].moved
           /\ pc[owner[h].held_by] = [at |-> "borrow_incref", h |-> h, d |-> 0]
           /\ \A g \in HandleIds : hist[g].parent # h

\* C17 witness: one borrow has returned its handle, the increment made,
\* while another thread's borrow has made its handle and not yet its
\* increment.
C17_Witness ==
  /\ lastOp.op = "new_borrowed" /\ lastOp.result = "returned"
  /\ hist[lastOp.h].increfs = 1
  /\ handles[lastOp.h].live
  /\ \E g \in HandleIds : g # lastOp.h /\ UnderConstruction(g)

====
